---------------------------- MODULE Spec2Model ----------------------------
(***************************************************************************)
(* Model of the resume generator backend:                                  *)
(*   routes/resume.py       fetch_github_data, sanitize,                   *)
(*                          generate_latex_resume, and the handler         *)
(*                          generate_resume of POST /generate-resume       *)
(*   agents/resume_agents.py ResumeStructureAgent._format_skills,          *)
(*                          ResumeWorkflow.escape_latex, generate_resume   *)
(*                                                                         *)
(* Text is modelled as a sequence of characters; a character is a one      *)
(* character string, except for the two tokens CTRL and NONASCII which     *)
(* stand for a control character (U+0001) and a non-ASCII character.       *)
(* A dict of the GitHub API is a record plus the set `missing` of the keys *)
(* that the JSON object does not hold.                                     *)
(***************************************************************************)
EXTENDS Integers, Sequences, FiniteSets, TLC

VARIABLES
    pc,             \* position of fetch_github_data
    user_data,      \* user_response.json()
    raw_repos,      \* repos_response.json(), in the order received
    repos,          \* sorted(repos, key=..., reverse=True), the loop's iterable
    idx,            \* number of loop iterations done
    projects,       \* list `projects`
    experience,     \* list `experience`
    all_languages,  \* set `all_languages`
    final_data,     \* the returned dict
    error,          \* the exception fetch_github_data raises, or NoError
    text,           \* the argument of sanitize and of escape_latex
    sanitized,      \* the call of routes.sanitize(text) and what it returned
    escaped,        \* the call of ResumeWorkflow.escape_latex(text) and what it returned
    wf_template,    \* the template ResumeWorkflow.generate_resume reads
    wf_user,        \* github_data['user_data'] of ResumeWorkflow.generate_resume
    resume_content, \* the call of ResumeWorkflow.generate_resume and what it returned
    template_blocks,\* the blocks the file resume_template.tex is put together from
    template,       \* the text generate_latex_resume reads from resume_template.tex
    github_data,    \* the argument of generate_latex_resume
    latex_content,  \* the call of generate_latex_resume and what it returned
    skills,         \* the list of skills handed to the two skills formatters
    routes_skills,  \* the buckets of generate_latex_resume (routes/resume.py)
    agent_skills,   \* the buckets of ResumeStructureAgent._format_skills
    h_pc,           \* position of each /generate-resume request in the handler
    loop,           \* the request whose coroutine the event loop is running, or 0
    cwd,            \* the working directory of the server process
    current_dir,    \* the handler's local `current_dir` of each request
    tex,            \* the request that wrote temp/resume.tex, 0 if the file is absent
    pdf,            \* the request whose text temp/resume.pdf was compiled from, 0 if absent
    in_flight,      \* the requests whose pdflatex subprocess is running
    returncode,     \* process.returncode of the first and of the second run, per request
    pending,        \* the exception travelling through the finally clause, per request
    raised,         \* the error fetch_github_data or generate_latex_resume raised, per request
    response,       \* what the caller of the handler observes, per request
    read_from,      \* the request whose resume.pdf the handler read, 0 if it read none
    removed         \* whether the handler removed the temporary files

extractVars == <<pc, user_data, raw_repos, repos, idx, projects, experience,
                 all_languages, final_data, error>>

sanitizerVars == <<text, sanitized, escaped>>

workflowVars == <<wf_template, wf_user, resume_content>>

renderVars == <<template_blocks, template, github_data, latex_content>>

skillsVars == <<skills, routes_skills, agent_skills>>

handlerVars == <<h_pc, loop, cwd, current_dir, tex, pdf, in_flight, returncode,
                 pending, raised, response, read_from, removed>>

vars == <<extractVars, sanitizerVars, workflowVars, renderVars, skillsVars, handlerVars>>

----------------------------------------------------------------------------
(* Bounds of the model *)

MaxRepos == 4
MaxTextLen == 3
MaxPieces == 3
MaxBlocks == 2
MaxSkills == 3
MaxRequests == 2

----------------------------------------------------------------------------
(* Generic helpers *)

\* dict.get(key, default) on a modelled dict
Get(d, key, default) == IF key \in d.missing THEN default ELSE d[key]

\* whether d[key] raises KeyError
Raises(d, key) == key \in d.missing

\* Python truthiness of a string value that may be None
None == "<None>"
Truthy(s) == s # None /\ s # ""

SeqToSet(s) == {s[i] : i \in 1..Len(s)}

----------------------------------------------------------------------------
(* Inputs: what the GitHub API may answer *)

Username == "octocat"
GithubUrl == "https://github.com/octocat"

CompleteProfile ==
    [name |-> "Ann", email |-> "ann@x.org", bio |-> "student", location |-> "Oslo",
     blog |-> "https://ann.dev", missing |-> {}]

Profiles ==
    { CompleteProfile,
      [name |-> "Ann", email |-> "", bio |-> "", location |-> "",
       blog |-> "", missing |-> {}],
      [name |-> None, email |-> None, bio |-> None, location |-> None,
       blog |-> None, missing |-> {}],
      [name |-> "", email |-> "", bio |-> "", location |-> "",
       blog |-> "", missing |-> {"name", "email", "bio", "location", "blog"}] }

\* The kinds of repository the API may list; the name is given by the position
\* in the answer, so that equal repositories stay distinguishable.
RepoKinds ==
    { \* A(stars=5, forks=1)
      [fork |-> FALSE, stargazers_count |-> 5, forks_count |-> 1, description |-> "d",
       created_at |-> <<"2023-01", "-05T10:00:00Z">>, updated_at |-> <<"2024-02", "-01T09:00:00Z">>,
       languages |-> <<"Python">>, lang_status |-> 200, commits |-> 0, commits_status |-> 200,
       missing |-> {}],
      \* B(stars=5, forks=3)
      [fork |-> FALSE, stargazers_count |-> 5, forks_count |-> 3, description |-> "d",
       created_at |-> <<"2023-01", "-05T10:00:00Z">>, updated_at |-> <<"2024-02", "-01T09:00:00Z">>,
       languages |-> <<"Python", "Go">>, lang_status |-> 200, commits |-> 15, commits_status |-> 200,
       missing |-> {}],
      \* C(stars=2, forks=9), language and commit requests refused
      [fork |-> FALSE, stargazers_count |-> 2, forks_count |-> 9, description |-> "d",
       created_at |-> <<"2023-01", "-05T10:00:00Z">>, updated_at |-> <<"2024-02", "-01T09:00:00Z">>,
       languages |-> <<"Go">>, lang_status |-> 403, commits |-> 15, commits_status |-> 403,
       missing |-> {}],
      \* no stars, significant by its commits; optional keys absent
      [fork |-> FALSE, stargazers_count |-> 0, forks_count |-> 0, description |-> "",
       created_at |-> <<"2023-01", "-05T10:00:00Z">>, updated_at |-> <<"2024-02", "-01T09:00:00Z">>,
       languages |-> <<"Go">>, lang_status |-> 200, commits |-> 11, commits_status |-> 200,
       missing |-> {"description", "forks_count", "fork"}],
      \* no stars, 10 commits: not significant
      [fork |-> FALSE, stargazers_count |-> 0, forks_count |-> 0, description |-> "d",
       created_at |-> <<"2023-01", "-05T10:00:00Z">>, updated_at |-> <<"2024-02", "-01T09:00:00Z">>,
       languages |-> <<"C++">>, lang_status |-> 200, commits |-> 10, commits_status |-> 200,
       missing |-> {}],
      \* stars=10, commits=15, languages={"Python"}
      [fork |-> FALSE, stargazers_count |-> 10, forks_count |-> 0, description |-> "d",
       created_at |-> <<"2023-01", "-05T10:00:00Z">>, updated_at |-> <<"2024-02", "-01T09:00:00Z">>,
       languages |-> <<"Python">>, lang_status |-> 200, commits |-> 15, commits_status |-> 200,
       missing |-> {}],
      \* a fork, with stars, commits and a language of its own
      [fork |-> TRUE, stargazers_count |-> 5, forks_count |-> 3, description |-> "d",
       created_at |-> <<"2023-01", "-05T10:00:00Z">>, updated_at |-> <<"2024-02", "-01T09:00:00Z">>,
       languages |-> <<"Rust">>, lang_status |-> 200, commits |-> 15, commits_status |-> 200,
       missing |-> {}],
      \* the star count is absent
      [fork |-> FALSE, stargazers_count |-> 0, forks_count |-> 2, description |-> "d",
       created_at |-> <<"2023-01", "-05T10:00:00Z">>, updated_at |-> <<"2024-02", "-01T09:00:00Z">>,
       languages |-> <<"Python">>, lang_status |-> 200, commits |-> 15, commits_status |-> 200,
       missing |-> {"stargazers_count"}],
      \* the timestamps are absent
      [fork |-> FALSE, stargazers_count |-> 1, forks_count |-> 0, description |-> "d",
       created_at |-> <<"", "">>, updated_at |-> <<"", "">>,
       languages |-> <<"Python">>, lang_status |-> 200, commits |-> 0, commits_status |-> 200,
       missing |-> {"created_at", "updated_at"}] }

\* the repository of kind k listed at position i
Named(k, i) ==
    [name |-> i, fork |-> k.fork, stargazers_count |-> k.stargazers_count,
     forks_count |-> k.forks_count, description |-> k.description,
     created_at |-> k.created_at, updated_at |-> k.updated_at,
     languages |-> k.languages, lang_status |-> k.lang_status,
     commits |-> k.commits, commits_status |-> k.commits_status,
     missing |-> k.missing]

\* the answers of the repository request: every list of at most MaxRepos kinds
RepoList(n, f) == [i \in 1..n |-> Named(f[i], i)]

----------------------------------------------------------------------------
(* fetch_github_data *)

NoError == [kind |-> "none", detail |-> <<>>]
NoData == [status |-> "none"]

\* HTTPException(status_code=500, detail=d); a message is a sequence of pieces
HTTPError(d) == [kind |-> "HTTPException", detail |-> d]

\* the KeyError of d[k] for an absent key k
KeyError(k) == [kind |-> "KeyError", detail |-> <<k>>]

\* str(e), as a set: str of a KeyError is the repr of the key; str of an
\* HTTPException is "500: <detail>" where starlette defines __str__, and ""
\* in the releases that do not (the exception is built from keyword arguments
\* only, so its args are empty)
Str(e) ==
    IF e.kind = "KeyError" THEN { <<"'">> \o e.detail \o <<"'">> }
    ELSE IF e.kind = "HTTPException" THEN { <<"500: ">> \o e.detail, <<>> }
    ELSE { e.detail }

\* raise HTTPException(status_code=500, detail=str(e)) of the except clause,
\* for s = str(e)
Wrap(s) == [kind |-> "HTTPException", detail |-> s]

\* key=lambda x: (x.get('stargazers_count', 0), x.get('forks_count', 0))
SortKey(x) == <<Get(x, "stargazers_count", 0), Get(x, "forks_count", 0)>>

\* tuple comparison a > b
TupleGreaterFirstOnly(a, b) == a[1] > b[1]
TupleGreater(a, b) == a[1] > b[1] \/ (a[1] = b[1] /\ a[2] > b[2])

\* stable insertion of x into the descending list s, behind the elements that
\* do not compare smaller
RECURSIVE InsertDesc(_, _)
InsertDesc(x, s) ==
    IF s = <<>> THEN <<x>>
    ELSE IF TupleGreater(SortKey(x), SortKey(Head(s)))
         THEN <<x>> \o s
         ELSE <<Head(s)>> \o InsertDesc(x, Tail(s))

RECURSIVE SortFrom(_, _)
SortFrom(s, acc) ==
    IF s = <<>> THEN acc ELSE SortFrom(Tail(s), InsertDesc(Head(s), acc))

\* sorted(repos, key=SortKey, reverse=True): descending and stable
SortedRepos(s) == SortFrom(s, <<>>)

\* `if not repo.get('fork')`: the repository is skipped
IsForkNever(repo) == FALSE
IsFork(repo) == Get(repo, "fork", FALSE)

\* languages = list(lang_response.json().keys()) if status 200 else []
Languages(repo) == IF repo.lang_status = 200 THEN repo.languages ELSE <<>>

\* commit_count = len(commits), commits = [] unless status 200
CommitCount(repo) == IF repo.commits_status = 200 THEN repo.commits ELSE 0

\* the f-string `description`
Description(repo) ==
    [description |-> Get(repo, "description", "A project"),
     technologies |-> Languages(repo),
     commits |-> CommitCount(repo),
     stars |-> repo.stargazers_count,
     forks |-> Get(repo, "forks_count", 0)]

\* repo['stargazers_count'] > 0 or commit_count > 10
SignificantStarsOnly(repo) == repo.stargazers_count > 0
Significant(repo) == repo.stargazers_count > 0 \/ CommitCount(repo) > 10

\* len(projects) < 3
ProjectsCapFour == 3 + 1
ProjectsCap == 3

ProjectData(repo) ==
    [name |-> repo.name, description |-> Description(repo),
     languages |-> Languages(repo), stars |-> repo.stargazers_count,
     commits |-> CommitCount(repo)]

ExpData(repo) ==
    [company |-> repo.name, position |-> "Lead Developer",
     date |-> <<repo.created_at[1], repo.updated_at[1]>>,
     description |-> Description(repo)]

NotCalled == [called |-> FALSE, out |-> <<>>]

SanitizerIdle ==
    /\ text = <<>>
    /\ sanitized = NotCalled
    /\ escaped = NotCalled

ExtractorIdle ==
    /\ pc = "start"
    /\ user_data = NoData
    /\ raw_repos = <<>>
    /\ repos = <<>>
    /\ idx = 0
    /\ projects = <<>>
    /\ experience = <<>>
    /\ all_languages = {}
    /\ final_data = NoData
    /\ error = NoError

WorkflowIdle ==
    /\ wf_template = <<>>
    /\ wf_user = [name |-> <<>>, missing |-> {}]
    /\ resume_content = NotCalled

RenderIdle ==
    /\ template_blocks = <<>>
    /\ template = <<>>
    /\ github_data = NoData
    /\ latex_content = NotCalled

NoBuckets == [called |-> FALSE, programming_languages |-> <<>>, technologies |-> <<>>]

SkillsIdle ==
    /\ skills = <<>>
    /\ routes_skills = NoBuckets
    /\ agent_skills = NoBuckets

\* the simultaneous /generate-resume requests
Requests == 1..MaxRequests

NoResponse == [kind |-> "none", detail |-> <<>>]

\* the server before any request: its working directory is the application's
HandlerIdle ==
    /\ h_pc = [r \in Requests |-> "new"]
    /\ loop = 0
    /\ cwd = "app"
    /\ current_dir = [r \in Requests |-> "unset"]
    /\ tex = 0
    /\ pdf = 0
    /\ in_flight = {}
    /\ returncode = [r \in Requests |-> <<-1, -1>>]
    /\ pending = [r \in Requests |-> NoError]
    /\ raised = [r \in Requests |-> NoError]
    /\ response = [r \in Requests |-> NoResponse]
    /\ read_from = [r \in Requests |-> 0]
    /\ removed = [r \in Requests |-> FALSE]

ExtractInit ==
    /\ ExtractorIdle /\ SanitizerIdle /\ WorkflowIdle /\ RenderIdle
    /\ SkillsIdle /\ HandlerIdle

\* lines 61-65: the user request
FetchUser ==
    /\ pc = "start"
    /\ \/ /\ \E p \in Profiles : user_data' = p
          /\ pc' = "repos"
          /\ error' = error
       \/ /\ \E s \in Str(HTTPError(<<"Failed to fetch GitHub user data">>)) : error' = Wrap(s)
          /\ pc' = "raised"
          /\ user_data' = user_data
    /\ UNCHANGED <<raw_repos, repos, idx, projects, experience, all_languages, final_data>>
    /\ UNCHANGED <<sanitizerVars, workflowVars, renderVars>>
    /\ UNCHANGED <<skillsVars, handlerVars>>

\* lines 69-82: the repository request and the sort. The answers the model goes
\* through: every list for the complete profile, the lists of at most one
\* repository for the other profiles (the loop does not read the profile).
FetchRepos ==
    /\ pc = "repos"
    /\ \/ /\ \E n \in 0..MaxRepos : \E f \in [1..n -> RepoKinds] :
               /\ n <= 1 \/ user_data = CompleteProfile
               /\ raw_repos' = RepoList(n, f)
               /\ repos' = SortedRepos(RepoList(n, f))
          /\ pc' = "loop"
          /\ error' = error
       \/ /\ \E s \in Str(HTTPError(<<"Failed to fetch GitHub repos">>)) : error' = Wrap(s)
          /\ pc' = "raised"
          /\ UNCHANGED <<raw_repos, repos>>
    /\ UNCHANGED <<user_data, idx, projects, experience, all_languages, final_data>>
    /\ UNCHANGED <<sanitizerVars, workflowVars, renderVars>>
    /\ UNCHANGED <<skillsVars, handlerVars>>

\* lines 82-127: one iteration of the loop
ProcessRepo ==
    /\ pc = "loop"
    /\ idx < Len(repos)
    /\ LET repo == repos[idx + 1]
           sig == Significant(repo)
           addProject == Len(projects) < ProjectsCap /\ sig
       IN  IF IsFork(repo)
           THEN \* skipped
                /\ idx' = idx + 1
                /\ UNCHANGED <<pc, projects, experience, all_languages, error>>
           ELSE IF Raises(repo, "stargazers_count")
           THEN \* line 102, after all_languages.update(languages)
                /\ all_languages' = all_languages \cup SeqToSet(Languages(repo))
                /\ \E s \in Str(KeyError("stargazers_count")) : error' = Wrap(s)
                /\ pc' = "raised"
                /\ UNCHANGED <<idx, projects, experience>>
           ELSE IF sig /\ Raises(repo, "created_at")
           THEN \* line 123, after projects.append(project_data)
                /\ all_languages' = all_languages \cup SeqToSet(Languages(repo))
                /\ projects' = IF addProject THEN Append(projects, ProjectData(repo)) ELSE projects
                /\ \E s \in Str(KeyError("created_at")) : error' = Wrap(s)
                /\ pc' = "raised"
                /\ UNCHANGED <<idx, experience>>
           ELSE /\ all_languages' = all_languages \cup SeqToSet(Languages(repo))
                /\ projects' = IF addProject THEN Append(projects, ProjectData(repo)) ELSE projects
                /\ experience' = IF sig THEN Append(experience, ExpData(repo)) ELSE experience
                /\ idx' = idx + 1
                /\ UNCHANGED <<pc, error>>
    /\ UNCHANGED <<user_data, raw_repos, repos, final_data>>
    /\ UNCHANGED <<sanitizerVars, workflowVars, renderVars>>
    /\ UNCHANGED <<skillsVars, handlerVars>>

\* alphabetical order of the language names
LangOrder == <<"C++", "Go", "Python", "Rust">>

\* sorted(list(all_languages))
SortedSkills(langs) == SelectSeq(LangOrder, LAMBDA l : l \in langs)

\* lines 130-138
EducationIfKey(user) ==
    IF ~Raises(user, "bio")
    THEN << [school |-> "Computer Science Student",
             degree |-> "Bachelor of Science in Computer Science",
             date |-> "Present", gpa |-> ""] >>
    ELSE <<>>
Education(user) ==
    IF Truthy(Get(user, "bio", None))
    THEN << [school |-> "Computer Science Student",
             degree |-> "Bachelor of Science in Computer Science",
             date |-> "Present", gpa |-> ""] >>
    ELSE <<>>

\* lines 141-157
FinalData(user) ==
    [status |-> "ok",
     name |-> Get(user, "name", Username),
     email |-> Get(user, "email", ""),
     location |-> Get(user, "location", ""),
     bio |-> Get(user, "bio", ""),
     skills |-> SortedSkills(all_languages),
     projects |-> projects,
     experience |-> experience,
     education |-> Education(user),
     profile_url |-> GithubUrl,
     blog |-> Get(user, "blog", "")]

\* lines 129-160: after the loop
BuildFinal ==
    /\ pc = "loop"
    /\ idx = Len(repos)
    /\ final_data' = FinalData(user_data)
    /\ pc' = "returned"
    /\ UNCHANGED <<user_data, raw_repos, repos, idx, projects, experience, all_languages, error>>
    /\ UNCHANGED <<sanitizerVars, workflowVars, renderVars>>
    /\ UNCHANGED <<skillsVars, handlerVars>>

ExtractNext == FetchUser \/ FetchRepos \/ ProcessRepo \/ BuildFinal

SpecExtract == ExtractInit /\ [][ExtractNext]_vars

----------------------------------------------------------------------------
(* sanitize (routes/resume.py) and escape_latex (agents/resume_agents.py)  *)
(* A text is a sequence of symbols: one reserved, blank or control         *)
(* character, or a run of letters kept as one symbol.                      *)

CTRL == "<U+0001>"        \* a control character, not printable, not whitespace
NONASCII == "<U+00E9>"    \* a character with code point >= 128

Backslash == "\\"

\* the characters the inputs are built from
InputChars == {"A", " ", "&", "_", Backslash, "{", "~", "|", "<", CTRL, NONASCII}

RECURSIVE TextsOfLen(_)
TextsOfLen(n) ==
    IF n = 0 THEN {<<>>}
    ELSE { Append(t, c) : t \in TextsOfLen(n - 1), c \in InputChars }

\* "A & B_C"
ExampleText == <<"A", " ", "&", " ", "B", "_", "C">>

TextInputs == UNION { TextsOfLen(n) : n \in 0..MaxTextLen } \cup {ExampleText}

\* str.replace(old, new) for a one character `old`
RECURSIVE ReplaceChar(_, _, _)
ReplaceChar(t, old, new) ==
    IF t = <<>> THEN <<>>
    ELSE (IF Head(t) = old THEN new ELSE <<Head(t)>>) \o ReplaceChar(Tail(t), old, new)

\* the removal of the characters with code point >= 128
StripNonAscii(t) == SelectSeq(t, LAMBDA c : c # NONASCII)

\* str.isprintable of one ASCII character
IsPrintable(c) == c # CTRL

\* ''.join(c for c in text if c.isprintable())
DropNonPrintable(t) == SelectSeq(t, IsPrintable)

IsSpace(c) == c = " "

\* str.strip()
RECURSIVE LStrip(_)
LStrip(t) == IF t # <<>> /\ IsSpace(Head(t)) THEN LStrip(Tail(t)) ELSE t
RECURSIVE RStrip(_)
RStrip(t) ==
    IF t # <<>> /\ IsSpace(t[Len(t)]) THEN RStrip(SubSeq(t, 1, Len(t) - 1)) ELSE t
Strip(t) == RStrip(LStrip(t))

TextCommand(name) == <<Backslash, name, "{", "}">>

\* the dict `replacements` of sanitize, in its insertion order (lines 174-188)
SanitizeReplacements ==
    << <<"&", <<Backslash, "&">> >>,
       <<"%", <<Backslash, "%">> >>,
       <<"$", <<Backslash, "$">> >>,
       <<"#", <<Backslash, "#">> >>,
       <<"_", <<Backslash, "_">> >>,
       <<"{", <<Backslash, "{">> >>,
       <<"}", <<Backslash, "}">> >>,
       <<"~", TextCommand("textasciitilde")>>,
       <<"^", TextCommand("textasciicircum")>>,
       <<Backslash, TextCommand("textbackslash")>>,
       <<"<", TextCommand("textless")>>,
       <<">", TextCommand("textgreater")>>,
       <<"|", <<"$", "|", "$">> >> >>

\* the dict `latex_special_chars` of escape_latex without its backslash entry,
\* which the loop skips (lines 144-165)
LatexSpecialChars ==
    << <<"&", <<Backslash, "&">> >>,
       <<"%", <<Backslash, "%">> >>,
       <<"$", <<Backslash, "$">> >>,
       <<"#", <<Backslash, "#">> >>,
       <<"_", <<Backslash, "_">> >>,
       <<"{", <<Backslash, "{">> >>,
       <<"}", <<Backslash, "}">> >>,
       <<"~", TextCommand("textasciitilde")>>,
       <<"^", TextCommand("textasciicircum")>>,
       <<"<", TextCommand("textless")>>,
       <<">", TextCommand("textgreater")>> >>

\* for old, new in table: text = text.replace(old, new)
RECURSIVE ReplaceAll(_, _)
ReplaceAll(t, table) ==
    IF table = <<>> THEN t
    ELSE ReplaceAll(ReplaceChar(t, Head(table)[1], Head(table)[2]), Tail(table))

\* routes/resume.py sanitize
sanitize(t) ==
    IF t = <<>> THEN <<>>
    ELSE ReplaceAll(StripNonAscii(t), SanitizeReplacements)

\* ResumeWorkflow.escape_latex
escape_latex(t) ==
    IF t = <<>> THEN <<>>
    ELSE Strip(DropNonPrintable(
           ReplaceAll(ReplaceChar(StripNonAscii(t), Backslash, TextCommand("textbackslash")),
                      LatexSpecialChars)))

SanitizerInit ==
    /\ text \in TextInputs
    /\ sanitized = NotCalled
    /\ escaped = NotCalled
    /\ ExtractorIdle
    /\ WorkflowIdle
    /\ RenderIdle
    /\ SkillsIdle
    /\ HandlerIdle

\* a call of sanitize(text)
CallSanitize ==
    /\ ~sanitized.called
    /\ sanitized' = [called |-> TRUE, out |-> sanitize(text)]
    /\ UNCHANGED <<text, escaped>>
    /\ UNCHANGED <<extractVars, workflowVars, renderVars>>
    /\ UNCHANGED <<skillsVars, handlerVars>>

\* a call of escape_latex(text)
CallEscapeLatex ==
    /\ ~escaped.called
    /\ escaped' = [called |-> TRUE, out |-> escape_latex(text)]
    /\ UNCHANGED <<text, sanitized>>
    /\ UNCHANGED <<extractVars, workflowVars, renderVars>>
    /\ UNCHANGED <<skillsVars, handlerVars>>

SanitizerNext == CallSanitize \/ CallEscapeLatex

SpecSanitizer == SanitizerInit /\ [][SanitizerNext]_vars

----------------------------------------------------------------------------
(* ResumeWorkflow.generate_resume (agents/resume_agents.py)                *)
(* The placeholders are written character by character. A run of          *)
(* characters without "<" and ">" that is no part of a placeholder's name  *)
(* is kept as one symbol: no placeholder can match a part of it.           *)

\* the positions at which `old` occurs in t
Occurrences(t, old) ==
    { i \in 1..(Len(t) - Len(old) + 1) : SubSeq(t, i, i + Len(old) - 1) = old }

SetMin(S) == CHOOSE x \in S : \A y \in S : x <= y

\* str.replace(old, new): the occurrences of `old`, left to right, not overlapping
RECURSIVE Replace(_, _, _)
Replace(t, old, new) ==
    IF Occurrences(t, old) = {} THEN t
    ELSE LET i == SetMin(Occurrences(t, old))
         IN  SubSeq(t, 1, i - 1) \o new
             \o Replace(SubSeq(t, i + Len(old), Len(t)), old, new)

\* ", ".join(parts), "\n".join(parts)
RECURSIVE Join(_, _)
Join(parts, sep) ==
    IF parts = <<>> THEN <<>>
    ELSE IF Len(parts) = 1 THEN parts[1]
    ELSE parts[1] \o sep \o Join(Tail(parts), sep)

\* the concatenation of a list of texts
RECURSIVE Concat(_)
Concat(parts) == IF parts = <<>> THEN <<>> ELSE Head(parts) \o Concat(Tail(parts))

NameToken == <<"<", "<", "N", "A", "M", "E", ">", ">">>
EmailToken == <<"<", "<", "E", "M", "A", "I", "L", ">", ">">>
LocationToken == <<"<", "<", "L", "O", "C", "A", "T", "I", "O", "N", ">", ">">>
ExperiencesToken == <<"<", "<", "E", "X", "P", "E", "R", "I", "E", "N", "C", "E", "S", ">", ">">>
ProjectsToken == <<"<", "<", "P", "R", "O", "J", "E", "C", "T", "S", ">", ">">>
SkillsToken == <<"<", "<", "S", "K", "I", "L", "L", "S", ">", ">">>

\* a text that may be None
NoneText == [none |-> TRUE, chars |-> <<>>]
Some(t) == [none |-> FALSE, chars |-> t]

\* escape_latex of a value that may be None: `if not text: return ""`
EscapeLatexOpt(v) == IF v.none THEN <<>> ELSE escape_latex(v.chars)

\* format_experience_item (lines 177-185)
format_experience_item(title, date_range, description) ==
    <<"\\resumeSubheading\n  {">> \o escape_latex(title) \o <<"}{">>
    \o escape_latex(date_range) \o <<"}\n  \\resumeItemListStart\n    \\resumeItem{">>
    \o escape_latex(description) \o <<"}\n  \\resumeItemListEnd\n">>

\* format_project_item (lines 187-195)
format_project_item(title, description) ==
    <<"\\resumeProjectHeading\n  {">> \o escape_latex(title)
    \o <<"}\n  \\resumeItemListStart\n    \\resumeItem{">>
    \o escape_latex(description) \o <<"}\n  \\resumeItemListEnd\n">>

\* the dict `data` (lines 205-223); github_data['user_data'].get('name', 'John Doe')
WorkflowData(user) ==
    [name |-> IF "name" \in user.missing THEN Some(<<"John Doe">>) ELSE user.name,
     email |-> <<"john@example.com">>,
     location |-> <<"New York, NY">>,
     skills |-> << <<"Python">>, <<"JavaScript">>, <<"LaTeX">> >>,
     experiences |-> << [title |-> <<"Lead Developer">>,
                         date_range |-> <<"2024-01 - Present">>,
                         description |-> <<"Led development of key features">>] >>,
     projects |-> << [title |-> <<"Resume Generator">>,
                      description |-> <<"Automated resume generation system">>] >>]

\* the placeholders and their values, in the order of the chain (lines 248-260)
WorkflowReplacements(data) ==
    << <<NameToken, EscapeLatexOpt(data.name)>>,
       <<EmailToken, escape_latex(data.email)>>,
       <<LocationToken, escape_latex(data.location)>>,
       <<ExperiencesToken,
         Join([i \in 1..Len(data.experiences) |->
                 format_experience_item(data.experiences[i].title,
                                        data.experiences[i].date_range,
                                        data.experiences[i].description)], <<"\n">>)>>,
       <<ProjectsToken,
         Join([i \in 1..Len(data.projects) |->
                 format_project_item(data.projects[i].title,
                                     data.projects[i].description)], <<"\n">>)>>,
       <<SkillsToken,
         Join([i \in 1..Len(data.skills) |-> escape_latex(data.skills[i])], <<", ">>)>> >>

\* template.replace(k1, v1).replace(k2, v2)...: each replacement works on the
\* result of the one before
RECURSIVE Chain(_, _)
Chain(content, table) ==
    IF table = <<>> THEN content
    ELSE Chain(Replace(content, Head(table)[1], Head(table)[2]), Tail(table))

\* generate_resume (lines 197-262)
generate_resume(tpl, user) == Chain(tpl, WorkflowReplacements(WorkflowData(user)))

\* the pieces the templates are put together from
WorkflowPieces ==
    { NameToken, EmailToken, LocationToken, ExperiencesToken, ProjectsToken, SkillsToken,
      <<"<", "<", "E", "M">>, <<"A", "I", "L", ">", ">">>, <<"\\section{Resume}\n">> }

\* the names the API may answer: absent, null, empty, plain, reserved characters,
\* and names that look like a placeholder or like a part of one
WorkflowUsers ==
    { [name |-> NoneText, missing |-> {"name"}],
      [name |-> NoneText, missing |-> {}],
      [name |-> Some(<<>>), missing |-> {}],
      [name |-> Some(<<"Ann">>), missing |-> {}],
      [name |-> Some(<<"A", "&", "L">>), missing |-> {}],
      [name |-> Some(EmailToken), missing |-> {}],
      [name |-> Some(<<"A", "I", "L", ">", ">">>), missing |-> {}] }

WorkflowInit ==
    /\ \E n \in 0..MaxPieces : \E f \in [1..n -> WorkflowPieces] : wf_template = Concat(f)
    /\ wf_user \in WorkflowUsers
    /\ resume_content = NotCalled
    /\ ExtractorIdle
    /\ SanitizerIdle
    /\ RenderIdle
    /\ SkillsIdle
    /\ HandlerIdle

\* a call of generate_resume
GenerateResume ==
    /\ ~resume_content.called
    /\ resume_content' = [called |-> TRUE, out |-> generate_resume(wf_template, wf_user)]
    /\ UNCHANGED <<wf_template, wf_user>>
    /\ UNCHANGED <<extractVars, sanitizerVars, renderVars>>
    /\ UNCHANGED <<skillsVars, handlerVars>>

WorkflowNext == GenerateResume

SpecWorkflow == WorkflowInit /\ [][WorkflowNext]_vars

----------------------------------------------------------------------------
(* generate_latex_resume (routes/resume.py)                                *)
(* The markup the function writes itself, and the sample text of the       *)
(* template's blocks, are kept as whole symbols; the values of github_data *)
(* are texts of the sanitizer's symbols.                                   *)

\* sanitize of a value that may be None: `if not text: return ""`
SanitizeOpt(v) == IF v.none THEN <<>> ELSE sanitize(v.chars)

NameHead == "\\textbf{\\Huge \\scshape "
SkillsHead == "\\begin{itemize}[leftmargin=0.15in, label={}]\n    \\small{\\item{\n    \\textbf{Programming Languages}: "
SkillsMid == " \\\\\n    \\textbf{Technologies}: "
SkillsTail == " \\\\\n    }}\n\\end{itemize}"
ListStart == "\\resumeSubHeadingListStart\n"
ListEnd == "\n\\resumeSubHeadingListEnd"
ExpItemHead == "\\resumeSubheading\n            "
ExpItemLine == "\n            "
ExpItemBullet == "\n            \\resumeItemListStart\n            \\resumeItem"
ExpItemTail == "\n            \\resumeItemListEnd"
ProjItemHead == "\\resumeSubheading\n                "
ProjItemLine == "\n                {Project}"
ProjItemBullet == "\n                \\resumeItemListStart\n                \\resumeItem"
ProjItemTail == "\n                \\resumeItemListEnd"
EduItemHead == "\\resumeSubheading"
ContactHead == "\\begin{center}\n\\small "
ContactSep == " $|$ \\href"
ContactTail == "\n\\end{center}"

\* {text}
Braced(t) == <<"{">> \o t \o <<"}">>

\* ['Python', 'JavaScript', 'TypeScript', 'C++', 'HTML', 'CSS', 'Jupyter Notebook']
ProgrammingLanguageNames ==
    { <<"Python">>, <<"JavaScript">>, <<"TypeScript">>, <<"C++">>, <<"HTML">>, <<"CSS">>,
      <<"Jupyter Notebook">> }

\* lines 200-210
skills_section(data) ==
    LET programming_languages == SelectSeq(data.skills, LAMBDA l : l \in ProgrammingLanguageNames)
        technologies == SelectSeq(data.skills, LAMBDA l : l \notin SeqToSet(programming_languages))
    IN  <<SkillsHead>> \o sanitize(Join(programming_languages, <<", ">>))
        \o <<SkillsMid>> \o sanitize(Join(technologies, <<", ">>))
        \o <<SkillsTail>>

\* list[:n]
Take(s, n) == SubSeq(s, 1, IF Len(s) < n THEN Len(s) ELSE n)

\* lines 216-223
experience_item(exp, data) ==
    <<ExpItemHead>> \o Braced(sanitize(exp.company)) \o Braced(SanitizeOpt(data.location))
    \o <<ExpItemLine>> \o Braced(sanitize(exp.position)) \o Braced(sanitize(exp.date))
    \o <<ExpItemBullet>> \o Braced(sanitize(exp.description)) \o <<ExpItemTail>>

\* lines 213-224
experience_section(data) ==
    LET top == Take(data.experience, 3)
    IN  <<ListStart>>
        \o Join([i \in 1..Len(top) |-> experience_item(top[i], data)], <<"\n">>)
        \o <<ListEnd>>

\* lines 229-238
project_item(proj) ==
    <<ProjItemHead>> \o Braced(sanitize(proj.name)) \o Braced(sanitize(<<"GitHub">>))
    \o <<ProjItemLine>> \o Braced(sanitize(Join(proj.languages, <<", ">>)))
    \o <<ProjItemBullet>> \o Braced(sanitize(proj.description)) \o <<ProjItemTail>>

\* lines 227-239
projects_section(data) ==
    LET top == Take(data.projects, 2)
    IN  <<ListStart>>
        \o Join([i \in 1..Len(top) |-> project_item(top[i])], <<"\n">>)
        \o <<ListEnd>>

\* lines 244-250
education_item(edu, data) ==
    <<EduItemHead>> \o Braced(sanitize(edu.school)) \o Braced(SanitizeOpt(data.location))
    \o Braced(sanitize(edu.degree)) \o Braced(sanitize(edu.date))

\* lines 242-251
education_section(data) ==
    <<ListStart>>
    \o Join([i \in 1..Len(data.education) |-> education_item(data.education[i], data)], <<"\n">>)
    \o <<ListEnd>>

\* lines 254-260
contact_section(data) ==
    <<ContactHead>> \o SanitizeOpt(data.email)
    \o <<ContactSep>> \o Braced(sanitize(data.profile_url)) \o Braced(sanitize(<<"GitHub">>))
    \o <<ContactSep>> \o Braced(SanitizeOpt(data.blog)) \o Braced(sanitize(<<"Portfolio">>))
    \o <<ContactTail>>

\* the literal blocks of the template that are replaced (the keys of lines 264-269)
NameBlock == <<NameHead, "John Doe", "}">>
SkillsBlock ==
    <<SkillsHead, "JavaScript", ", ", "TypeScript", ", ", "HTML", ", ", "Python", ", ",
      "Jupyter Notebook", ", ", "C++", SkillsMid, "Git", ", ", "GitHub", SkillsTail>>
ExperienceBlock ==
    <<ListStart, ExpItemHead, "{", "Example Corp", "}", "{", "Location", "}", ExpItemLine,
      "{", "Software Engineer", "}", "{", "2020-Present", "}", ExpItemBullet,
      "{", "Full-stack development", "}", ExpItemTail, ListEnd>>
ProjectsBlock ==
    <<ListStart,
      ProjItemHead, "{", "A-H-Website", "}", "{", "GitHub", "}", ProjItemLine,
      "{", "HTML", "}", ProjItemBullet,
      "{", "So, I have created this website ... so user get latest news", "}", ProjItemTail,
      "\n",
      ProjItemHead, "{", "Advent-Of-Code-2024-Competition", "}", "{", "GitHub", "}", ProjItemLine,
      "{", "JavaScript", "}", ProjItemBullet,
      "{", "Welcome to my Advent of Code 2024 repository! ... follow along!", "}", ProjItemTail,
      ListEnd>>
EducationBlock ==
    <<ListStart, EduItemHead, "{", "University Name", "}", "{", "City, Country", "}",
      "{", "Degree", "}", "{", "2018-2022", "}", ListEnd>>
ContactBlock ==
    <<ContactHead, "john@example.com", ContactSep, "{", "https://github.com/HassanMehmood413", "}",
      "{", "GitHub", "}", ContactSep, "{", "https://www.linkedin.com/in/hassan-mehmood-01a3a9247/", "}",
      "{", "LinkedIn", "}", ContactTail>>

\* the dict `replacements`, in its insertion order (lines 263-270)
RenderReplacements(data) ==
    << <<NameBlock, <<NameHead>> \o SanitizeOpt(data.name) \o <<"}">> >>,
       <<SkillsBlock, skills_section(data)>>,
       <<ExperienceBlock, experience_section(data)>>,
       <<ProjectsBlock, projects_section(data)>>,
       <<EducationBlock, education_section(data)>>,
       <<ContactBlock, contact_section(data)>> >>

\* the loop that gives up at the first block it does not find
RECURSIVE ApplyUntilMissing(_, _)
ApplyUntilMissing(content, table) ==
    IF table = <<>> THEN content
    ELSE IF Replace(content, Head(table)[1], Head(table)[2]) = content THEN content
    ELSE ApplyUntilMissing(Replace(content, Head(table)[1], Head(table)[2]), Tail(table))

\* for key, value in replacements.items():
\*     latex_content = latex_content.replace(key, value)     (lines 272-274)
RECURSIVE ApplyReplacements(_, _)
ApplyReplacements(content, table) ==
    IF table = <<>> THEN content
    ELSE ApplyReplacements(Replace(content, Head(table)[1], Head(table)[2]), Tail(table))

\* generate_latex_resume (lines 193-281)
generate_latex_resume(tpl, data) ==
    [called |-> TRUE, status |-> "ok", out |-> ApplyReplacements(tpl, RenderReplacements(data))]

\* blocks of a template that was edited: no literal block of the code matches them
NameBlockEdited == <<NameHead, "Jane Roe", "}">>
EducationBlockEdited ==
    <<ListStart, EduItemHead, "{", "University Name", "}", "{", "City, Country", "}",
      "{", "Degree", "}", "{", "2019-2023", "}", ListEnd>>
Preamble == <<"\\documentclass[letterpaper,11pt]{article}\n">>

LiteralBlocks ==
    {NameBlock, SkillsBlock, ExperienceBlock, ProjectsBlock, EducationBlock, ContactBlock}

TemplateBlocks == LiteralBlocks \cup {NameBlockEdited, EducationBlockEdited, Preamble}

\* what fetch_github_data may hand over
PresentEducation ==
    << [school |-> <<"Computer Science Student">>,
        degree |-> <<"Bachelor of Science in Computer Science">>,
        date |-> <<"Present">>] >>

SampleExperience(company) ==
    [company |-> company, position |-> <<"Lead Developer">>,
     date |-> <<"2023-01 - 2024-02">>,
     description |-> <<"d. Technologies: Python. Made 15 commits. Stars: 10, Forks: 0">>]

SampleProject(name, languages) ==
    [name |-> name, languages |-> languages,
     description |-> <<"d. Technologies: Python. Made 15 commits. Stars: 10, Forks: 0">>]

GithubDatas ==
    { [status |-> "ok", name |-> Some(<<"Ann">>), email |-> Some(<<"ann@x.org">>),
       location |-> Some(<<"Oslo">>), blog |-> Some(<<"https://ann.dev">>),
       profile_url |-> <<"https://github.com/ann">>,
       skills |-> << <<"Go">>, <<"Python">> >>,
       experience |-> << SampleExperience(<<"web app">>) >>,
       projects |-> << SampleProject(<<"web", "_", "app">>, << <<"Python">> >>) >>,
       education |-> PresentEducation],
      [status |-> "ok", name |-> NoneText, email |-> NoneText,
       location |-> NoneText, blog |-> NoneText,
       profile_url |-> <<"https://github.com/bob">>,
       skills |-> <<>>, experience |-> <<>>, projects |-> <<>>, education |-> <<>>],
      [status |-> "ok", name |-> Some(<<"John Doe">>), email |-> Some(<<>>),
       location |-> Some(<<"A", "&", "B">>), blog |-> Some(<<>>),
       profile_url |-> <<"https://github.com/john", "_", "doe">>,
       skills |-> << <<"C", "#">>, <<"C++">>, <<"Jupyter Notebook">> >>,
       experience |-> << SampleExperience(<<"one">>), SampleExperience(<<"two">>),
                         SampleExperience(<<"three">>), SampleExperience(<<"four">>) >>,
       projects |-> << SampleProject(<<"one">>, << <<"C", "#">>, <<"C++">> >>),
                       SampleProject(<<"two">>, <<>>),
                       SampleProject(<<"three">>, << <<"Python">> >>) >>,
       education |-> PresentEducation] }

RenderInit ==
    /\ \E n \in 0..MaxBlocks : template_blocks \in [1..n -> TemplateBlocks]
    /\ template = Concat(template_blocks)
    /\ github_data \in GithubDatas
    /\ latex_content = NotCalled
    /\ ExtractorIdle
    /\ SanitizerIdle
    /\ WorkflowIdle
    /\ SkillsIdle
    /\ HandlerIdle

\* a call of generate_latex_resume(github_data)
GenerateLatexResume ==
    /\ ~latex_content.called
    /\ latex_content' = generate_latex_resume(template, github_data)
    /\ UNCHANGED <<template_blocks, template, github_data>>
    /\ UNCHANGED <<extractVars, sanitizerVars, workflowVars>>
    /\ UNCHANGED <<skillsVars, handlerVars>>

RenderNext == GenerateLatexResume

SpecRender == RenderInit /\ [][RenderNext]_vars

----------------------------------------------------------------------------
(* The two skills formatters: lines 200-201 of routes/resume.py and          *)
(* ResumeStructureAgent._format_skills of agents/resume_agents.py            *)

\* the names a list of skills is drawn from, in the order of sorted()
SkillOrder ==
    << <<"C++">>, <<"Docker">>, <<"Go">>, <<"HTML">>, <<"Jupyter Notebook">>, <<"Python">> >>

\* sorted(list(all_languages)) of at most MaxSkills names
SkillLists ==
    { SelectSeq(SkillOrder, LAMBDA l : l \in S) :
        S \in { T \in SUBSET SeqToSet(SkillOrder) : Cardinality(T) <= MaxSkills } }

\* routes/resume.py, lines 200-201
routes_format_skills(sk) ==
    LET programming_languages == SelectSeq(sk, LAMBDA l : l \in ProgrammingLanguageNames)
    IN  [called |-> TRUE,
         programming_languages |-> programming_languages,
         technologies |-> SelectSeq(sk, LAMBDA l : l \notin SeqToSet(programming_languages))]

\* ['Python', 'JavaScript', 'TypeScript', 'C++', 'HTML', 'CSS'] of _format_skills
AgentLanguageNames ==
    { <<"Python">>, <<"JavaScript">>, <<"TypeScript">>, <<"C++">>, <<"HTML">>, <<"CSS">> }

\* ResumeStructureAgent._format_skills, lines 90-91
format_skills(sk) ==
    LET programming_languages == SelectSeq(sk, LAMBDA l : l \in AgentLanguageNames)
    IN  [called |-> TRUE,
         programming_languages |-> programming_languages,
         technologies |-> SelectSeq(sk, LAMBDA l : l \notin SeqToSet(programming_languages))]

SkillsInit ==
    /\ skills \in SkillLists
    /\ routes_skills = NoBuckets
    /\ agent_skills = NoBuckets
    /\ ExtractorIdle
    /\ SanitizerIdle
    /\ WorkflowIdle
    /\ RenderIdle
    /\ HandlerIdle

\* the skills formatting of generate_latex_resume
FormatSkillsRoutes ==
    /\ ~routes_skills.called
    /\ routes_skills' = routes_format_skills(skills)
    /\ UNCHANGED <<skills, agent_skills>>
    /\ UNCHANGED <<extractVars, sanitizerVars, workflowVars, renderVars, handlerVars>>

\* a call of ResumeStructureAgent._format_skills(skills)
FormatSkillsAgent ==
    /\ ~agent_skills.called
    /\ agent_skills' = format_skills(skills)
    /\ UNCHANGED <<skills, routes_skills>>
    /\ UNCHANGED <<extractVars, sanitizerVars, workflowVars, renderVars, handlerVars>>

SkillsNext == FormatSkillsRoutes \/ FormatSkillsAgent

SpecSkills == SkillsInit /\ [][SkillsNext]_vars

----------------------------------------------------------------------------
(* The handler of POST /generate-resume (routes/resume.py, generate_resume). *)
(* The handler is a coroutine (`async def`) whose body holds no `await`:    *)
(* the event loop of the server process runs it from its first line to its  *)
(* return or raise before it starts the coroutine of another request. The   *)
(* steps of a request are separate actions, so that the guard on the event  *)
(* loop, and nothing else, is what keeps the requests apart.                *)

\* the event loop takes up the coroutine of a request only when it is not
\* running one (line 288: `async def`, and no `await` on lines 289-384)
LoopAlwaysFree == TRUE
LoopFree == loop = 0

\* what fetch_github_data raises: every raise inside it is caught on line 162
\* and raised again as HTTPException(500, detail=str(e)) on line 164
ExtractorErrors ==
    { Wrap(s) : s \in Str(HTTPError(<<"Failed to fetch GitHub user data">>))
                      \cup Str(HTTPError(<<"Failed to fetch GitHub repos">>))
                      \cup Str(KeyError("stargazers_count"))
                      \cup Str(KeyError("created_at")) }

\* open(template_path) of a template file that is not there
TemplateNotFound ==
    [kind |-> "FileNotFoundError",
     detail |-> <<"[Errno 2] No such file or directory: ", "resume_template.tex">>]

\* what generate_latex_resume raises (lines 282-285)
RendererErrors == { Wrap(s) : s \in Str(TemplateNotFound) }

\* subprocess.run of a pdflatex executable that is not there
CompilerNotFound ==
    [kind |-> "FileNotFoundError",
     detail |-> <<"[Errno 2] No such file or directory: ", "pdflatex.exe">>]

\* line 341 and line 354
FirstRunFailed == HTTPError(<<"PDF generation failed. Check logs for details.">>)
SecondRunFailed == HTTPError(<<"PDF generation failed on second run">>)

\* `if process.returncode != 0: raise` (lines 332 and 351), read as its negation
RunAlwaysSucceeded(rc) == TRUE
RunSucceeded(rc) == rc = 0

\* os.chdir(current_dir) of the finally clause (line 357)
StayInDir(r) == cwd
RestoreDir(r) == current_dir[r]

PdfResponse == [kind |-> "pdf", detail |-> <<>>]

HandlerInit ==
    /\ HandlerIdle
    /\ ExtractorIdle
    /\ SanitizerIdle
    /\ WorkflowIdle
    /\ RenderIdle
    /\ SkillsIdle

\* lines 288-295: the event loop starts the coroutine of request r
HandlerBegin(r) ==
    /\ h_pc[r] = "new"
    /\ LoopFree
    /\ loop' = r
    /\ h_pc' = [h_pc EXCEPT ![r] = "fetch"]
    /\ UNCHANGED <<cwd, current_dir, tex, pdf, in_flight, returncode, pending, raised,
                   response, read_from, removed>>
    /\ UNCHANGED <<extractVars, sanitizerVars, workflowVars, renderVars, skillsVars>>

\* line 298: github_data = fetch_github_data(profile_links.github)
HandlerFetch(r) ==
    /\ h_pc[r] = "fetch"
    /\ \/ /\ h_pc' = [h_pc EXCEPT ![r] = "render"]
          /\ UNCHANGED <<raised, pending>>
       \/ \E e \in ExtractorErrors :
             /\ raised' = [raised EXCEPT ![r] = e]
             /\ pending' = [pending EXCEPT ![r] = e]
             /\ h_pc' = [h_pc EXCEPT ![r] = "except"]
    /\ UNCHANGED <<loop, cwd, current_dir, tex, pdf, in_flight, returncode,
                   response, read_from, removed>>
    /\ UNCHANGED <<extractVars, sanitizerVars, workflowVars, renderVars, skillsVars>>

\* line 301: latex_content = generate_latex_resume(github_data)
HandlerRender(r) ==
    /\ h_pc[r] = "render"
    /\ \/ /\ h_pc' = [h_pc EXCEPT ![r] = "write"]
          /\ UNCHANGED <<raised, pending>>
       \/ \E e \in RendererErrors :
             /\ raised' = [raised EXCEPT ![r] = e]
             /\ pending' = [pending EXCEPT ![r] = e]
             /\ h_pc' = [h_pc EXCEPT ![r] = "except"]
    /\ UNCHANGED <<loop, cwd, current_dir, tex, pdf, in_flight, returncode,
                   response, read_from, removed>>
    /\ UNCHANGED <<extractVars, sanitizerVars, workflowVars, renderVars, skillsVars>>

\* lines 305-307: temp/resume.tex is written
WriteTex(r) ==
    /\ h_pc[r] = "write"
    /\ tex' = r
    /\ h_pc' = [h_pc EXCEPT ![r] = "chdir"]
    /\ UNCHANGED <<loop, cwd, current_dir, pdf, in_flight, returncode, pending, raised,
                   response, read_from, removed>>
    /\ UNCHANGED <<extractVars, sanitizerVars, workflowVars, renderVars, skillsVars>>

\* lines 315-316: current_dir = os.getcwd(); os.chdir(temp_dir)
ChangeDir(r) ==
    /\ h_pc[r] = "chdir"
    /\ current_dir' = [current_dir EXCEPT ![r] = cwd]
    /\ cwd' = "temp"
    /\ h_pc' = [h_pc EXCEPT ![r] = "run1"]
    /\ UNCHANGED <<loop, tex, pdf, in_flight, returncode, pending, raised,
                   response, read_from, removed>>
    /\ UNCHANGED <<extractVars, sanitizerVars, workflowVars, renderVars, skillsVars>>

\* lines 320 and 344: subprocess.run starts pdflatex on resume.tex, or raises
\* because the executable cannot be started
StartRun(r) ==
    /\ h_pc[r] \in {"run1", "run2"}
    /\ \/ /\ in_flight' = in_flight \cup {r}
          /\ h_pc' = [h_pc EXCEPT ![r] = IF h_pc[r] = "run1" THEN "wait1" ELSE "wait2"]
          /\ UNCHANGED pending
       \/ /\ pending' = [pending EXCEPT ![r] = CompilerNotFound]
          /\ h_pc' = [h_pc EXCEPT ![r] = "finally"]
          /\ UNCHANGED in_flight
    /\ UNCHANGED <<loop, cwd, current_dir, tex, pdf, returncode, raised,
                   response, read_from, removed>>
    /\ UNCHANGED <<extractVars, sanitizerVars, workflowVars, renderVars, skillsVars>>

\* lines 320-341: the first run returns; a run that returns 0 has compiled the
\* resume.tex of the directory into resume.pdf, a run that fails may have
\* written a resume.pdf or not
ReturnFirstRun(r) ==
    /\ h_pc[r] = "wait1"
    /\ \E rc \in {0, 1} :
          /\ rc = 0 => tex # 0
          /\ returncode' = [returncode EXCEPT ![r] = <<rc, -1>>]
          /\ pdf' \in (IF rc = 0 THEN {tex} ELSE {pdf, tex})
          /\ IF RunSucceeded(rc)
             THEN /\ h_pc' = [h_pc EXCEPT ![r] = "run2"]
                  /\ UNCHANGED pending
             ELSE /\ pending' = [pending EXCEPT ![r] = FirstRunFailed]
                  /\ h_pc' = [h_pc EXCEPT ![r] = "finally"]
    /\ in_flight' = in_flight \ {r}
    /\ UNCHANGED <<loop, cwd, current_dir, tex, raised, response, read_from, removed>>
    /\ UNCHANGED <<extractVars, sanitizerVars, workflowVars, renderVars, skillsVars>>

\* lines 344-354: the second run returns
ReturnSecondRun(r) ==
    /\ h_pc[r] = "wait2"
    /\ \E rc \in {0, 1} :
          /\ rc = 0 => tex # 0
          /\ returncode' = [returncode EXCEPT ![r] = <<returncode[r][1], rc>>]
          /\ pdf' \in (IF rc = 0 THEN {tex} ELSE {pdf, tex})
          /\ pending' = [pending EXCEPT ![r] =
                            IF RunSucceeded(rc) THEN NoError ELSE SecondRunFailed]
    /\ h_pc' = [h_pc EXCEPT ![r] = "finally"]
    /\ in_flight' = in_flight \ {r}
    /\ UNCHANGED <<loop, cwd, current_dir, tex, raised, response, read_from, removed>>
    /\ UNCHANGED <<extractVars, sanitizerVars, workflowVars, renderVars, skillsVars>>

\* lines 356-357: the finally clause, on the way out of the compile step
Finally(r) ==
    /\ h_pc[r] = "finally"
    /\ cwd' = RestoreDir(r)
    /\ h_pc' = [h_pc EXCEPT ![r] = IF pending[r] = NoError THEN "read" ELSE "except"]
    /\ UNCHANGED <<loop, current_dir, tex, pdf, in_flight, returncode, pending, raised,
                   response, read_from, removed>>
    /\ UNCHANGED <<extractVars, sanitizerVars, workflowVars, renderVars, skillsVars>>

\* open(pdf_path, "rb") of a resume.pdf that is not there
PdfNotFound ==
    [kind |-> "FileNotFoundError",
     detail |-> <<"[Errno 2] No such file or directory: ", "resume.pdf">>]

\* lines 362-364: resume.pdf is read
ReadPdf(r) ==
    /\ h_pc[r] = "read"
    /\ IF pdf = 0
       THEN /\ pending' = [pending EXCEPT ![r] = PdfNotFound]
            /\ h_pc' = [h_pc EXCEPT ![r] = "except"]
            /\ UNCHANGED read_from
       ELSE /\ read_from' = [read_from EXCEPT ![r] = pdf]
            /\ h_pc' = [h_pc EXCEPT ![r] = "cleanup"]
            /\ UNCHANGED pending
    /\ UNCHANGED <<loop, cwd, current_dir, tex, pdf, in_flight, returncode, raised,
                   response, removed>>
    /\ UNCHANGED <<extractVars, sanitizerVars, workflowVars, renderVars, skillsVars>>

\* lines 367-379: the temporary files are removed (a file that cannot be
\* removed is logged and passed over) and the PDF is returned
CleanUpAndReturn(r) ==
    /\ h_pc[r] = "cleanup"
    /\ tex' = 0
    /\ pdf' = 0
    /\ removed' = [removed EXCEPT ![r] = TRUE]
    /\ response' = [response EXCEPT ![r] = PdfResponse]
    /\ h_pc' = [h_pc EXCEPT ![r] = "done"]
    /\ loop' = 0
    /\ UNCHANGED <<cwd, current_dir, in_flight, returncode, pending, raised, read_from>>
    /\ UNCHANGED <<extractVars, sanitizerVars, workflowVars, renderVars, skillsVars>>

\* lines 381-384: except Exception as e: raise HTTPException(500, detail=str(e))
HandlerExcept(r) ==
    /\ h_pc[r] = "except"
    /\ \E s \in Str(pending[r]) : response' = [response EXCEPT ![r] = Wrap(s)]
    /\ h_pc' = [h_pc EXCEPT ![r] = "done"]
    /\ loop' = 0
    /\ UNCHANGED <<cwd, current_dir, tex, pdf, in_flight, returncode, pending, raised,
                   read_from, removed>>
    /\ UNCHANGED <<extractVars, sanitizerVars, workflowVars, renderVars, skillsVars>>

HandlerNext ==
    \E r \in Requests :
        \/ HandlerBegin(r)
        \/ HandlerFetch(r)
        \/ HandlerRender(r)
        \/ WriteTex(r)
        \/ ChangeDir(r)
        \/ StartRun(r)
        \/ ReturnFirstRun(r)
        \/ ReturnSecondRun(r)
        \/ Finally(r)
        \/ ReadPdf(r)
        \/ CleanUpAndReturn(r)
        \/ HandlerExcept(r)

SpecHandler == HandlerInit /\ [][HandlerNext]_vars

----------------------------------------------------------------------------
(* Properties of fetch_github_data *)

\* the input says fork = true
ForkTrue(r) == "fork" \notin r.missing /\ r.fork

\* starCount > 0 or commitCount > 10, on the raw input
SignificantInput(r) ==
    ("stargazers_count" \notin r.missing /\ r.stargazers_count > 0)
    \/ (r.commits_status = 200 /\ r.commits > 10)

InputRepos == SeqToSet(repos)
InputNamed(n) == CHOOSE r \in InputRepos : r.name = n
Returned == pc = "returned"

NamesOf(s) == [i \in 1..Len(s) |-> s[i].name]
CompaniesOf(s) == [i \in 1..Len(s) |-> s[i].company]

\* the languages the non-fork repositories answered
NonForkLanguages ==
    UNION { IF r.lang_status = 200 THEN SeqToSet(r.languages) ELSE {} :
            r \in { x \in InputRepos : ~ForkTrue(x) } }

\* C1: a repository with fork = true contributes nothing: no project and no
\* experience entry is derived from it, and a language is among the skills only
\* if a repository that is not a fork reported it.
C1_ForksContributeNothing ==
    /\ \A i \in 1..Len(projects) : ~ForkTrue(InputNamed(projects[i].name))
    /\ \A i \in 1..Len(experience) : ~ForkTrue(InputNamed(experience[i].company))
    /\ all_languages \subseteq NonForkLanguages
    /\ Returned =>
         /\ SeqToSet(final_data.skills) \subseteq NonForkLanguages
         /\ \A i \in 1..Len(final_data.projects) :
                ~ForkTrue(InputNamed(final_data.projects[i].name))
         /\ \A i \in 1..Len(final_data.experience) :
                ~ForkTrue(InputNamed(final_data.experience[i].company))

\* a starred fork with a language of its own was listed beside a significant
\* repository, and the facts were returned
C1_Witness ==
    /\ Returned
    /\ \E r \in InputRepos :
           ForkTrue(r) /\ r.stargazers_count > 0 /\ "Rust" \in SeqToSet(r.languages)
    /\ Len(final_data.projects) > 0
    /\ Len(final_data.experience) > 0

NumSignificant == Cardinality({ r \in InputRepos : ~ForkTrue(r) /\ SignificantInput(r) })

InputKey(r) ==
    << IF "stargazers_count" \in r.missing THEN 0 ELSE r.stargazers_count,
       IF "forks_count" \in r.missing THEN 0 ELSE r.forks_count >>

KeyGreater(a, b) == a[1] > b[1] \/ (a[1] = b[1] /\ a[2] > b[2])

\* the input is the example A(5,1), B(5,3), C(2,9)
IsExampleABC ==
    /\ Len(raw_repos) = 3
    /\ InputKey(raw_repos[1]) = <<5, 1>>
    /\ InputKey(raw_repos[2]) = <<5, 3>>
    /\ InputKey(raw_repos[3]) = <<2, 9>>

\* C3: the loop goes through the repositories received, each once, in descending
\* order of (stars, forks); repositories with equal keys keep the order in which
\* they were received (the name of a repository is its position in the answer).
\* A, B, C are processed as B, A, C.
C3_SortedStable ==
    /\ Len(repos) = Len(raw_repos)
    /\ SeqToSet(repos) = SeqToSet(raw_repos)
    /\ \A i, j \in 1..Len(repos) :
           i < j =>
             \/ KeyGreater(InputKey(repos[i]), InputKey(repos[j]))
             \/ /\ InputKey(repos[i]) = InputKey(repos[j])
                /\ repos[i].name < repos[j].name
    /\ IsExampleABC => NamesOf(repos) = <<2, 1, 3>>

\* the example was received and processed to the end
C3_Witness ==
    /\ IsExampleABC
    /\ pc = "loop"
    /\ idx = 3
    /\ CompaniesOf(experience) = <<2, 1, 3>>

\* C8 as stated: no absent optional field makes the extraction fail; it fails
\* only when one of the two requests was refused.
C8_Original ==
    pc = "raised" =>
        error.detail \in Str(HTTPError(<<"Failed to fetch GitHub user data">>))
                          \cup Str(HTTPError(<<"Failed to fetch GitHub repos">>))

\* the repositories processed so far that are significant and not forks
RECURSIVE SignificantNames(_)
SignificantNames(s) ==
    IF s = <<>> THEN <<>>
    ELSE (IF ~ForkTrue(Head(s)) /\ SignificantInput(Head(s)) THEN <<Head(s).name>> ELSE <<>>)
         \o SignificantNames(Tail(s))

Min(a, b) == IF a < b THEN a ELSE b

IsExampleSingle ==
    /\ Len(raw_repos) = 1
    /\ ~ForkTrue(raw_repos[1])
    /\ InputKey(raw_repos[1])[1] = 10
    /\ raw_repos[1].commits = 15 /\ raw_repos[1].commits_status = 200

\* C9: experience holds one entry for every significant repository processed, in
\* the order of the loop; projects holds the first of them, up to its cap, whatever
\* experience holds; one repository with stars=10 and commits=15 gives one entry
\* of each.
C9_SignificantInOrder ==
    pc \in {"loop", "returned"} =>
        LET sig == SignificantNames(SubSeq(repos, 1, idx))
        IN  /\ CompaniesOf(experience) = sig
            /\ NamesOf(projects) = SubSeq(sig, 1, Min(Len(sig), 3))
            /\ (Returned /\ IsExampleSingle) =>
                   /\ NamesOf(final_data.projects) = <<1>>
                   /\ CompaniesOf(final_data.experience) = <<1>>

\* the single repository of the example was extracted
C9_Witness ==
    /\ Returned
    /\ IsExampleSingle
    /\ Len(final_data.projects) = 1
    /\ Len(final_data.experience) = 1

\* the bio of the profile is a non-empty string
BioNonEmpty == "bio" \notin user_data.missing /\ user_data.bio # None /\ user_data.bio # ""

\* C10: the education list is non-empty exactly when the bio is non-empty, and
\* then it has one entry, dated "Present".
C10_EducationIffBio ==
    Returned =>
        /\ (final_data.education # <<>>) <=> BioNonEmpty
        /\ final_data.education # <<>> =>
              /\ Len(final_data.education) = 1
              /\ final_data.education[1].date = "Present"

\* facts were returned for a profile whose bio key holds the empty string
C10_Witness ==
    /\ Returned
    /\ "bio" \notin user_data.missing
    /\ user_data.bio = ""
    /\ final_data.education = <<>>

----------------------------------------------------------------------------
(* Properties of the sanitizers *)

\* "A \& B\_C"
ExampleSanitized == <<"A", " ", Backslash, "&", " ", "B", Backslash, "_", "C">>

HasChar(t, c) == \E i \in 1..Len(t) : t[i] = c

\* what C4 says of one sanitizer's output
BackslashEscapedFirst(out) ==
    /\ text = ExampleText => out = ExampleSanitized
    /\ ~HasChar(text, Backslash) => ~HasChar(out, "textbackslash")

\* C4 as stated: both sanitizers escape the backslash first: an input without a
\* backslash gives an output without an escaped backslash, and "A & B_C" gives
\* "A \& B\_C".
C4_Original ==
    /\ sanitized.called => BackslashEscapedFirst(sanitized.out)
    /\ escaped.called => BackslashEscapedFirst(escaped.out)

\* C4 holds of escape_latex, which replaces the backslash before its loop
C4_EscapeLatex == escaped.called => BackslashEscapedFirst(escaped.out)

Metacharacters == {"&", "%", "$", "#", "_", "{", "}"}
TextCommandNames == {"textbackslash", "textasciitilde", "textasciicircum",
                     "textless", "textgreater"}

\* out[i] belongs to an escape sequence: it follows a backslash, is one of the
\* braces of \textxxx{}, or is one of the dollars of $|$
PartOfEscape(out, i) ==
    \/ i > 1 /\ out[i - 1] = Backslash
    \/ /\ out[i] = "{" /\ i > 2 /\ i < Len(out)
       /\ out[i - 1] \in TextCommandNames /\ out[i - 2] = Backslash /\ out[i + 1] = "}"
    \/ /\ out[i] = "}" /\ i > 3
       /\ out[i - 1] = "{" /\ out[i - 2] \in TextCommandNames /\ out[i - 3] = Backslash
    \/ out[i] = "$" /\ i + 2 <= Len(out) /\ out[i + 1] = "|" /\ out[i + 2] = "$"
    \/ out[i] = "$" /\ i > 2 /\ out[i - 1] = "|" /\ out[i - 2] = "$"

\* what C5 says of one sanitizer's output
CleanOutput(out) ==
    /\ ~HasChar(out, CTRL)
    /\ out # <<>> => out[1] # " " /\ out[Len(out)] # " "
    /\ \A i \in 1..Len(out) : out[i] \in Metacharacters => PartOfEscape(out, i)

\* C5 as stated: the output of both sanitizers has no control character, no
\* leading or trailing whitespace and no metacharacter outside an escape sequence.
C5_Original ==
    /\ sanitized.called => CleanOutput(sanitized.out)
    /\ escaped.called => CleanOutput(escaped.out)

\* C5 holds of escape_latex, which drops and trims after escaping
C5_EscapeLatex == escaped.called => CleanOutput(escaped.out)

----------------------------------------------------------------------------
(* Properties of the template renderers *)

\* whether `key` matches `t` at position i
MatchesAt(t, key, i) == i + Len(key) - 1 <= Len(t) /\ SubSeq(t, i, i + Len(key) - 1) = key

Occurs(t, key) == \E i \in 1..Len(t) : MatchesAt(t, key, i)

\* every replacement of `table` applied to the original text `t` only: the text
\* is read once, left to right, and what is inserted is not read again
RECURSIVE OriginalOnly(_, _)
OriginalOnly(t, table) ==
    LET hits == { i \in 1..Len(t) : \E k \in 1..Len(table) : MatchesAt(t, table[k][1], i) }
    IN  IF hits = {} THEN t
        ELSE LET i == SetMin(hits)
                 k == CHOOSE h \in 1..Len(table) : MatchesAt(t, table[h][1], i)
             IN  SubSeq(t, 1, i - 1) \o table[k][2]
                 \o OriginalOnly(SubSeq(t, i + Len(table[k][1]), Len(t)), table)

Reordered(table, p) == [i \in 1..Len(table) |-> table[p[i]]]

\* C6 as stated, for generate_resume: the result is the one of applying every
\* replacement to the original template only, and it is the same in whatever order
\* the replacements are chained.
C6_Original ==
    resume_content.called =>
        LET table == WorkflowReplacements(WorkflowData(wf_user))
        IN  /\ resume_content.out = OriginalOnly(wf_template, table)
            /\ \A p \in Permutations(1..Len(table)) :
                   Chain(wf_template, Reordered(table, p)) = resume_content.out

Without(table, k) == [i \in 1..(Len(table) - 1) |-> IF i < k THEN table[i] ELSE table[i + 1]]

\* the blocks of the template, each literal block replaced by its section
BlockwiseResult(blocks, table) ==
    Concat([i \in 1..Len(blocks) |->
              IF \E k \in 1..Len(table) : table[k][1] = blocks[i]
              THEN table[CHOOSE k \in 1..Len(table) : table[k][1] = blocks[i]][2]
              ELSE blocks[i]])

\* C7: when a literal block does not occur in the template, generate_latex_resume
\* raises nothing, the result is the one the other replacements give alone, the
\* blocks of the template that match no literal block are in the result as they
\* are in the template, and every block that matches is replaced by its section.
C7_MissingBlockSkipped ==
    latex_content.called =>
        LET table == RenderReplacements(github_data)
        IN  /\ latex_content.status = "ok"
            /\ \A k \in 1..Len(table) :
                   ~Occurs(template, table[k][1]) =>
                       latex_content.out = ApplyReplacements(template, Without(table, k))
            /\ latex_content.out = BlockwiseResult(template_blocks, table)

\* the template holds an edited name block before the education block, and the
\* education block was replaced while the edited block was kept
C7_Witness ==
    /\ latex_content.called
    /\ Len(template_blocks) >= 2
    /\ template_blocks[1] = NameBlockEdited
    /\ template_blocks[2] = EducationBlock
    /\ ~Occurs(template, NameBlock)
    /\ Occurs(latex_content.out, NameBlockEdited)
    /\ ~Occurs(latex_content.out, EducationBlock)
    /\ Occurs(latex_content.out, education_section(github_data))


----------------------------------------------------------------------------
(* Properties of the contact fragment of generate_latex_resume *)

\* the value is None or the empty string
EmptyOpt(v) == v.none \/ v.chars = <<>>

\* C11 as stated: the contact fragment holds the GitHub link only when the
\* profile URL is non-empty and the Portfolio link only when the blog URL is
\* non-empty; a link whose URL is empty is left out. No template block holds
\* the label "Portfolio", so the label is in the output only if the contact
\* fragment put it there.
C11_Original ==
    latex_content.called =>
        (EmptyOpt(github_data.blog) => ~HasChar(latex_content.out, "Portfolio"))


----------------------------------------------------------------------------
(* Properties of the skills formatters *)

\* the fixed list of the specification
FixedLanguageList ==
    { <<"Python">>, <<"JavaScript">>, <<"TypeScript">>, <<"C++">>, <<"HTML">>, <<"CSS">>,
      <<"Jupyter Notebook">> }

\* the two buckets are disjoint, cover the skills, and the first one holds
\* exactly the skills of the fixed list
PartitionsByFixedList(b) ==
    /\ SeqToSet(b.programming_languages) = SeqToSet(skills) \cap FixedLanguageList
    /\ SeqToSet(b.technologies) = SeqToSet(skills) \ FixedLanguageList
    /\ SeqToSet(b.programming_languages) \cap SeqToSet(b.technologies) = {}
    /\ SeqToSet(b.programming_languages) \cup SeqToSet(b.technologies) = SeqToSet(skills)

\* C12 as stated: every skills formatter splits the skills into the
\* programming languages, which are the skills of the fixed list (Python,
\* JavaScript, TypeScript, C++, HTML, CSS, Jupyter Notebook), and the
\* technologies, which are all the others.
C12_Original ==
    /\ routes_skills.called => PartitionsByFixedList(routes_skills)
    /\ agent_skills.called => PartitionsByFixedList(agent_skills)

\* the formatter of routes/resume.py does what C12 says
C12_RoutesFormatter == routes_skills.called => PartitionsByFixedList(routes_skills)


----------------------------------------------------------------------------
(* Properties of the /generate-resume handler *)

\* C13 as stated: an error raised by the Extractor or by the Renderer reaches
\* the caller untouched: what the caller observes is the error value (kind and
\* message) that the failing stage raised.
C13_Original ==
    \A r \in Requests :
        (h_pc[r] = "done" /\ raised[r] # NoError) => response[r] = raised[r]

\* request r has written resume.tex and has not yet read resume.pdf or given up
BetweenWriteAndRead(r) ==
    h_pc[r] \in {"chdir", "run1", "wait1", "run2", "wait2", "finally", "read"}

\* C14: under any interleaving of simultaneous requests at most one pdflatex
\* run is in flight on the temp directory, and the files of a request that is
\* between its write and its read are not touched by another request: its
\* resume.tex is still its own, the resume.pdf of its successful run is still
\* there, and a request reads no resume.pdf but the one compiled from its own
\* resume.tex.
C14_OneCompilerAtATime ==
    /\ Cardinality(in_flight) <= 1
    /\ \A q \in Requests :
          BetweenWriteAndRead(q) =>
              /\ tex = q
              /\ (returncode[q][1] = 0 /\ pending[q] = NoError) => pdf = q
    /\ \A r \in Requests : read_from[r] \in {0, r}

\* two requests were made together; one has got its PDF and removed the
\* files, the compiler of the other is running on its own resume.tex
C14_Witness ==
    \E r, q \in Requests :
        /\ r # q
        /\ response[r] = PdfResponse
        /\ read_from[r] = r
        /\ h_pc[q] = "wait2"
        /\ in_flight = {q}
        /\ tex = q

\* the second run of request r was started
SecondRunStarted(r) == h_pc[r] = "wait2" \/ returncode[r][2] # -1

\* C15: the second compiler run starts only after the first returned 0; a
\* PDF response is returned only after both runs returned 0; if a run returns
\* non-zero the handler ends with an HTTP 500 error, reads no resume.pdf and
\* removes no temporary file.
C15_RunsInOrder ==
    \A r \in Requests :
        /\ SecondRunStarted(r) => returncode[r][1] = 0
        /\ response[r] = PdfResponse => returncode[r] = <<0, 0>>
        /\ (returncode[r][1] = 1 \/ returncode[r][2] = 1) =>
               /\ h_pc[r] \in {"finally", "except", "done"}
               /\ read_from[r] = 0
               /\ ~removed[r]
               /\ h_pc[r] = "done" => response[r].kind = "HTTPException"

\* a request whose first run returned 0 and whose second run returned 1 has
\* ended with an error, with nothing read and nothing removed
C15_Witness ==
    \E r \in Requests :
        /\ h_pc[r] = "done"
        /\ returncode[r] = <<0, 1>>
        /\ response[r] \in { Wrap(s) : s \in Str(SecondRunFailed) }
        /\ tex = r

\* request r has left the compile step (the try of lines 318-357)
LeftCompileStep(r) ==
    /\ current_dir[r] # "unset"
    /\ h_pc[r] \in {"read", "cleanup", "except"} \/ (h_pc[r] = "done" /\ loop = 0)

\* C16: once the handler has changed the working directory, the working
\* directory is restored on every way out of the compile step, so that after
\* the handler ends it is the directory of before the call.
C16_WorkingDirRestored ==
    /\ \A r \in Requests : LeftCompileStep(r) => cwd = current_dir[r]
    /\ loop = 0 => cwd = "app"

\* the three ways out: both runs succeeded, a run failed, an exception
C16_Witness ==
    \E r, q \in Requests :
        /\ h_pc[r] = "done" /\ h_pc[q] = "done" /\ loop = 0
        /\ pending[r] = CompilerNotFound
        /\ pending[q] = FirstRunFailed
        /\ current_dir[r] = "app" /\ current_dir[q] = "app"
        /\ cwd = "app"

=============================================================================
